---- MODULE Spec2Model ----
(***************************************************************************)
(* A model of the gtn-downloader scripts (src/bin): the local download     *)
(* orchestrators (data-library-download.py, test-download.py,              *)
(* download_from_tsv.py) with their staged, retrying download helpers, and *)
(* the Onedata REST client and upload orchestrator (api_upload.py).        *)
(*                                                                         *)
(* Sizes are counted in chunks as iter_content / retrbinary deliver them.  *)
(* A name is a sequence of one-character strings, so that sanitize_name    *)
(* acts on characters.  A path is [base, sub, file]: a root directory, the *)
(* directory names below it, and the file name.                            *)
(***************************************************************************)
EXTENDS Integers, Sequences, FiniteSets, TLC

\* ---------------------------------------------------------------- bounds
MaxRetries == 3
MaxManifests == 2
MaxLines == 2
MaxCalls == 3
MaxLen == 2
MaxItems == 2

\* ------------------------------------------------------ program constants
DefaultBackoff == 10
TsvBackoff == 5

\* ------------------------------------------------------------------ names
Forbidden ==
  {"\\", "/", ":", "*", ",", "?", "\"", "<", ">", "|", "%", ".", "#", "!",
   "@", "$", "&", "'", "(", ")", "[", "]", "{", "}", " "}

\* sanitize_name replacing the space only
sanitize_spaces(name) ==
  [i \in DOMAIN name |-> IF name[i] = " " THEN "-" ELSE name[i]]

\* re.sub(r'[\\/:\*,?"<>|%.#!@$&\'\(\)\[\]{} ]', "-", name)
sanitize_name(name) ==
  [i \in DOMAIN name |-> IF name[i] \in Forbidden THEN "-" ELSE name[i]]

\* dict.get(key, default)
Get(rec, key, default) == IF key \in DOMAIN rec THEN rec[key] ELSE default

\* os.path.join(dir, name): joining "" only adds a trailing separator
os_path_join(dir, name) == IF name = <<>> THEN dir ELSE Append(dir, name)

\* ------------------------------------------------------------------- URLs
\* A URL is [scheme, parts]: parts are the segments of its path.
S_rec == <<"r">>
S_content == <<"c", "o", "n", "t", "e", "n", "t">>
F_a == <<"a", ".", "t">>
F_e == <<"e">>
F_f == <<"f", ".", "g">>

S_other == <<"q">>
UA == [scheme |-> "http", parts |-> <<S_rec, F_a>>]
UB == [scheme |-> "http", parts |-> <<S_other, F_a>>]
UZ == [scheme |-> "http", parts |-> <<S_rec, F_a, S_content>>]
UE == [scheme |-> "http", parts |-> <<S_rec, F_e>>]
UF == [scheme |-> "ftp", parts |-> <<S_rec, F_f>>]
NoUrl == [scheme |-> "", parts |-> <<>>]

\* The number of chunks the server holds for a file name (F_e is empty).
BodyLen(file) ==
  CASE file = F_a -> 2
    [] file = F_f -> 1
    [] OTHER -> 0

\* download_url.endswith("/content")
EndsWithContent(url) ==
  Len(url.parts) > 0 /\ url.parts[Len(url.parts)] = S_content

\* download_url[:-8]
StripContent(url) ==
  [url EXCEPT !.parts = SubSeq(url.parts, 1, Len(url.parts) - 1)]

\* parts[-2] if parts[-1] == "content" and len(parts) > 1 else parts[-1]
\* (parsed.path starts with "/", so split("/") has one more part than the model)
SafeFileName(url) ==
  LET n == Len(url.parts)
  IN IF n = 0 THEN <<>>
     ELSE IF url.parts[n] = S_content
          THEN (IF n > 1 THEN url.parts[n - 1] ELSE <<>>)
          ELSE url.parts[n]

\* ------------------------------------------------------------------ files
\* fs maps each existing path to [src, len]: the name it was fetched under
\* and the chunks it holds.
Exists(f, p) == p \in DOMAIN f
GetSize(f, p) == f[p].len
WriteFile(f, p, file) == [q \in DOMAIN f \cup {p} |-> IF q = p THEN file ELSE f[q]]
Remove(f, p) == [q \in DOMAIN f \ {p} |-> f[q]]
\* a copy that leaves src behind
CopyOnly(f, src, dst) == WriteFile(f, dst, f[src])

\* shutil.move(src, dst): dst takes src's content and src is gone
Move(f, src, dst) == Remove(WriteFile(f, dst, f[src]), src)
EmptyFs == [q \in {} |-> [src |-> <<>>, len |-> 0]]

Complete(file) == file.len = BodyLen(file.src)

\* ------------------------------------------------------------------ paths
TMP_BASE == "/workspace/tmp"
CACHE_BASE == "/workspace/cache"
TSV_TMP_BASE == "/tmp"
OUTPUT_DIR == "output_dir"

FilePath(base, sub, file) == [base |-> base, sub |-> sub, file |-> file]

\* get_safe_filename_from_url(url, output_path) of the local scripts
get_safe_filename_from_url(url, base, output_path) ==
  FilePath(base, output_path, SafeFileName(url))

\* tmp_local = os.path.join(TMP_BASE, os.path.basename(dest_path))
TmpLocal(scr, dest) ==
  FilePath(IF scr = "from_tsv" THEN TSV_TMP_BASE ELSE TMP_BASE, <<>>, dest.file)

\* The path the body chunks are written to: open(tmp_local, "wb")
StagePathAtDest(scr, dest) == dest

StagePath(scr, dest) == TmpLocal(scr, dest)

\* normalize_path of download_from_tsv.py
normalize_path(path) ==
  IF path.base = "/mnt/onedata/GTN---Material"
  THEN [path EXCEPT !.base = "/mnt/onedata/GTN data/GTN---Material"]
  ELSE path

\* The URL requested by the helper: data-library-download.py strips a
\* trailing "/content", the other two request the URL as given.
RequestUrl(scr, url) ==
  IF scr = "data_library" /\ EndsWithContent(url) THEN StripContent(url) ELSE url

\* The resource a request for url answers with (named by its file).
Resource(url) == SafeFileName(url)

\* --------------------------------------------------------------- statuses
Downloaded == [kind |-> "Downloaded", desc |-> ""]
Skipped(why) == [kind |-> "Skipped", desc |-> why]
\* f"Error downloading file from {download_url}: {e}"
ErrorStatus(e) == [kind |-> "Error", desc |-> e]
\* download_from_tsv.py: return "Error", 0
TsvErrorStatus(e) == [kind |-> "Error", desc |-> ""]

\* --------------------------------------------------------------- manifests
N_GM == <<"G", " ", "M">>
N_T == <<"T">>
N_U == <<"u", ".", "1">>
N_D == <<"d">>

Item(u) == [url |-> u]
Doi(n, its) == [name |-> n, items |-> its]
Tutorial(its) == [name |-> N_U, items |-> its]
Topic(tuts) == [name |-> N_T, items |-> tuts]
Data(topics) == [destination |-> [name |-> N_GM], items |-> topics]

LoadedOk(d) == [yaml |-> "ok", data |-> d]

\* What yaml.safe_load gives for the manifest files of the walk.
M_direct == LoadedOk(Data(<<Topic(<<Tutorial(<<Item(UA)>>)>>)>>))
M_zenodo == LoadedOk(Data(<<Topic(<<Tutorial(<<Item(UZ)>>)>>)>>))
M_doi == LoadedOk(Data(<<Topic(<<Tutorial(<<Doi(N_D, <<Item(UF)>>)>>)>>)>>))
\* two items of one tutorial whose URLs end in the same file name
M_samefile == LoadedOk(Data(<<Topic(<<Tutorial(<<Item(UA), Item(UB)>>)>>)>>))
M_invalid == [yaml |-> "invalid"]
M_empty == [yaml |-> "none"]
M_nodest == LoadedOk([items |-> <<Topic(<<Tutorial(<<Item(UA)>>)>>)>>])
M_noitems == LoadedOk([destination |-> [name |-> N_GM]])
M_noname == LoadedOk(Data(<<Topic(<<[items |-> <<Item(UA)>>]>>)>>))

ManifestPool ==
  {M_direct, M_zenodo, M_doi, M_samefile, M_invalid, M_empty, M_nodest, M_noitems,
   M_noname}

\* A manifest with sibling topics, tutorials and DOI groups, and one item
\* beneath the first of each.
N_S == <<"S">>
N_V == <<"v">>
N_G == <<"g">>
M_siblings ==
  LoadedOk(Data(<<
    [name |-> N_T,
     items |-> <<[name |-> N_U, items |-> <<Doi(N_D, <<Item(UE)>>), Doi(N_G, <<>>)>>],
                 [name |-> N_V, items |-> <<>>]>>],
    [name |-> N_S, items |-> <<>>]>>))
UploadPool == ManifestPool \cup {M_siblings}

\* ------------------------------------------- the walk of one manifest
RECURSIVE Flatten(_)
\* the concatenation of a sequence of sequences
Flatten(ss) == IF ss = <<>> THEN <<>> ELSE Head(ss) \o Flatten(Tail(ss))

\* The steps a nested loop takes up to and including the first exception.
UpToRaise(ops) ==
  LET bad == {i \in DOMAIN ops : ops[i].op = "raise"}
  IN IF bad = {} THEN ops
     ELSE SubSeq(ops, 1, CHOOSE i \in bad : \A j \in bad : i <= j)

UrlOp(output_path, entry) ==
  [op |-> "url", path |-> output_path, url |-> Get(entry, "url", NoUrl), exc |-> ""]
\* a step that fetches: url = entry.get("url", ""); if url:
IsLeafOp(o) == o.op = "url" /\ o.url # NoUrl
RaiseOp(exc) == [op |-> "raise", path |-> <<>>, url |-> NoUrl, exc |-> exc]

\* process_urls(output_path, items, summary_file): one step per entry
process_urls(output_path, items) ==
  [i \in DOMAIN items |-> UrlOp(output_path, items[i])]

DoiOps(tutorial_path, doi) ==
  process_urls(os_path_join(tutorial_path, sanitize_name(Get(doi, "name", <<>>))),
               Get(doi, "items", <<>>))

TutorialOps(topic_path, tutorial) ==
  IF "name" \notin DOMAIN tutorial THEN <<RaiseOp("KeyError")>>
  ELSE LET tutorial_path == os_path_join(topic_path, sanitize_name(tutorial.name))
           dois == Get(tutorial, "items", <<>>)
       IN process_urls(tutorial_path, dois)
            \o Flatten([i \in DOMAIN dois |-> DoiOps(tutorial_path, dois[i])])

TopicOps(destination_name, topic) ==
  IF "name" \notin DOMAIN topic THEN <<RaiseOp("KeyError")>>
  ELSE LET topic_path == <<destination_name, sanitize_name(topic.name)>>
       IN process_urls(topic_path, Get(topic, "items", <<>>))
            \o (IF "items" \notin DOMAIN topic THEN <<RaiseOp("KeyError")>>
                ELSE Flatten([i \in DOMAIN topic.items |->
                                TutorialOps(topic_path, topic.items[i])]))

\* process_yaml of the local scripts, after yaml.safe_load: the entries it
\* hands to process_urls, in order, or the exception that ends it.
process_yaml(m) ==
  IF m.yaml = "invalid" THEN <<RaiseOp("YAMLError")>>
  ELSE IF m.yaml = "none" THEN <<RaiseOp("TypeError")>>
  ELSE IF "destination" \notin DOMAIN m.data THEN <<RaiseOp("KeyError")>>
  ELSE IF "name" \notin DOMAIN m.data.destination THEN <<RaiseOp("KeyError")>>
  ELSE IF "items" \notin DOMAIN m.data THEN <<RaiseOp("KeyError")>>
  ELSE LET destination_name == sanitize_name(m.data.destination.name)
       IN UpToRaise(Flatten([i \in DOMAIN m.data.items |->
                               TopicOps(destination_name, m.data.items[i])]))

\* The lines of files_to_download.tsv, as main of download_from_tsv.py
\* splits them.
TsvPath(file) == FilePath("/mnt/onedata/GTN---Material", <<N_T>>, file)
TsvLines ==
  {[kind |-> "entry", path |-> TsvPath(F_a), url |-> UA],
   [kind |-> "entry", path |-> TsvPath(F_e), url |-> UE],
   [kind |-> "entry", path |-> TsvPath(F_f), url |-> UF],
   [kind |-> "malformed", path |-> TsvPath(<<>>), url |-> NoUrl],
   [kind |-> "comment", path |-> TsvPath(<<>>), url |-> NoUrl]}

\* ------------------------------------------------------------------ state
VARIABLES
  script,    \* the script that runs
  retries,   \* the helper's retries argument
  fs,        \* the local files
  fs0,       \* the local files when the run started
  walked,    \* manifests (or TSV lines) the walk has yielded
  work,      \* what is left of the current manifest's walk
  cur,       \* the entry being fetched: [path, url, dest, tmp, req]
  pc,        \* where the run stands
  attempt,   \* the helper's loop variable
  raised,    \* the exception on its way to the helper's except clause
  e,         \* the helper's last caught error
  sleeps,    \* the delays slept during the current fetch
  net,       \* the network requests made during the current fetch
  ret,       \* what the fetch returned: [status, size]
  summary,   \* the lines of download-summary.tsv
  fetched,   \* one record per entry fetched so far
  exc,       \* the uncaught exception that ended the run
  remote,    \* the remote store: fileId -> [parent, name, type, content]
  oplog,     \* the calls made on the remote store client, with their results
  token,     \* ONEPROVIDER_REST_ACCESS_TOKEN
  todo,      \* what is left of the current manifest's upload walk
  ids,       \* dest_id, topic_id, tut_id, doi_id of the current branch
  item,      \* the file handle_file_upload is at: [url, parent, filename, local]
  remote0,   \* the remote store when the run started
  loaded,    \* the manifests the upload walk has loaded so far
  traffic,   \* requests of the upload run so far: [downloads, uploads, faults]
  name_in,   \* the argument of a function called on its own
  name_out   \* what the function returned

fetchVars ==
  <<script, retries, fs, fs0, walked, work, cur, pc, attempt, raised, e,
    sleeps, net, ret, summary, fetched, exc>>

pureVars == <<name_in, name_out>>
histVars == <<remote0, loaded, traffic>>
storeVars == <<remote, oplog, token, todo, ids, item, histVars>>

NoCur == [path |-> <<>>, url |-> NoUrl, dest |-> FilePath("", <<>>, <<>>),
          tmp |-> FilePath("", <<>>, <<>>), req |-> NoUrl]
NoRet == [status |-> [kind |-> "", desc |-> ""], size |-> 0]

HeaderLine ==
  [kind |-> "header", path |-> <<>>, url |-> NoUrl,
   status |-> [kind |-> "Status", desc |-> ""], size |-> 0]
ItemLine(output_path, url, status, file_size) ==
  [kind |-> "item", path |-> output_path, url |-> url, status |-> status,
   size |-> file_size]
OverallLine(overall_size) ==
  [kind |-> "overall", path |-> <<>>, url |-> NoUrl,
   status |-> [kind |-> "", desc |-> ""], size |-> overall_size]

LocalScripts == {"data_library", "test_download", "from_tsv"}

\* Files a previous run may have left where this run will look.
F_old == <<"o", "l", "d">>
OldFiles == {[src |-> F_old, len |-> 1], [src |-> F_old, len |-> 0]}
OldPaths(scr) ==
  IF scr = "from_tsv"
  THEN {normalize_path(TsvPath(F_a))}
  ELSE {FilePath(b, <<sanitize_name(N_GM), sanitize_name(N_T), sanitize_name(N_U)>>, F_a) :
          b \in (IF scr = "test_download" THEN {OUTPUT_DIR, CACHE_BASE} ELSE {OUTPUT_DIR})}
InitialFs(scr) ==
  {EmptyFs} \cup {WriteFile(EmptyFs, p, f) : p \in OldPaths(scr), f \in OldFiles}

\* The remote store with the root folder only (ROOT_ID is its fileId; a
\* Python None is 0, no fileId).
None == 0
ROOT_ID == 1
NoContent == [src |-> <<>>, len |-> 0]
RootOnly ==
  [i \in {ROOT_ID} |-> [parent |-> None, name |-> <<>>, type |-> "DIR",
                        content |-> NoContent]]
NoItem == [url |-> NoUrl, parent |-> None, filename |-> <<>>,
           local |-> FilePath("", <<>>, <<>>)]

\* No function is being called on its own.
PureIdle == name_in = <<>> /\ name_out = <<>>

NoTraffic == [downloads |-> 0, uploads |-> 0, faults |-> FALSE]
HistIdle ==
  /\ remote0 = remote
  /\ loaded = <<>>
  /\ traffic = NoTraffic

\* The local scripts make no use of the remote store.
StoreIdle ==
  /\ remote = RootOnly
  /\ oplog = <<>>
  /\ token = ""
  /\ todo = <<>>
  /\ ids = <<>>
  /\ item = NoItem
  /\ HistIdle

\* main up to the walk: write_summary_header has written the header line
\* (download_from_tsv.py keeps no summary file).
InitFetch ==
  /\ script \in LocalScripts
  /\ retries \in 1..MaxRetries
  /\ fs0 \in InitialFs(script)
  /\ fs = fs0
  /\ walked = 0
  /\ work = <<>>
  /\ cur = NoCur
  /\ pc = "main"
  /\ attempt = 0
  /\ raised = ""
  /\ e = "None"
  /\ sleeps = <<>>
  /\ net = 0
  /\ ret = NoRet
  /\ summary = IF script = "from_tsv" THEN <<>> ELSE <<HeaderLine>>
  /\ fetched = <<>>
  /\ exc = ""
  /\ StoreIdle
  /\ PureIdle

\* ------------------------------------------------- the download helpers
\* os.path.exists(filename) and os.path.getsize(filename) > 0
NeverThere(f, p) == FALSE

\* the size test the wrong way round
ThereButEmpty(f, p) == Exists(f, p) /\ GetSize(f, p) = 0

AlreadyThere(f, p) == Exists(f, p) /\ GetSize(f, p) > 0

\* process_urls picks safe_download_ftp for "ftp://" URLs; download_from_tsv.py
\* has the HTTP helper only.
UsesFtp(scr, url) == scr # "from_tsv" /\ url.scheme = "ftp"

\* What requests.get(...) followed by raise_for_status() can come to.
HttpErrors ==
  {"ConnectionError", "Timeout", "HTTPError 403", "HTTPError 404", "HTTPError 500"}
HttpOutcomes(url) ==
  IF url.scheme = "ftp" THEN {"InvalidSchema"} ELSE HttpErrors \cup {"200"}

\* time.sleep(backoff * (attempt + 1)); download_from_tsv.py sleeps backoff
Delay(scr, k) == IF scr = "from_tsv" THEN TsvBackoff ELSE DefaultBackoff * (k + 1)

\* the loop going round once more than range(retries)
OneMoreAttempt(k, n) == k <= n

\* for attempt in range(retries)
GivesUpEarly(k, n) == k + 1 < n

HasAttemptLeft(k, n) == k < n

StartFetch(entry_path, url, dest) ==
  /\ cur' = [path |-> entry_path, url |-> url, dest |-> dest,
             tmp |-> StagePath(script, dest), req |-> RequestUrl(script, url)]
  /\ attempt' = 0
  /\ e' = "None"
  /\ sleeps' = <<>>
  /\ net' = 0
  /\ raised' = ""
  /\ pc' = "attempt"
  /\ UNCHANGED <<fs, ret>>

SkipFetch(entry_path, url, dest, file, why) ==
  /\ cur' = [path |-> entry_path, url |-> url, dest |-> dest,
             tmp |-> file, req |-> NoUrl]
  /\ ret' = [status |-> Skipped(why), size |-> GetSize(fs, file)]
  /\ attempt' = 0
  /\ e' = "None"
  /\ sleeps' = <<>>
  /\ net' = 0
  /\ raised' = ""
  /\ pc' = "row"
  /\ UNCHANGED fs

\* requests.get, raise_for_status, open(tmp_local, "wb")
HttpGet ==
  /\ pc = "attempt"
  /\ HasAttemptLeft(attempt, retries)
  /\ ~UsesFtp(script, cur.url)
  /\ net' = net + 1
  /\ \E out \in HttpOutcomes(cur.req) :
       IF out = "200"
       THEN /\ fs' = WriteFile(fs, cur.tmp, [src |-> Resource(cur.req), len |-> 0])
            /\ pc' = "stream"
            /\ raised' = ""
       ELSE /\ raised' = out
            /\ pc' = "except"
            /\ fs' = fs
  /\ UNCHANGED <<storeVars, pureVars, script, retries, fs0, walked, work, cur, attempt, e, sleeps,
                 ret, summary, fetched, exc>>

\* ftplib.FTP(host), login, cwd, open(tmp_local, "wb")
FtpConnect ==
  /\ pc = "attempt"
  /\ HasAttemptLeft(attempt, retries)
  /\ UsesFtp(script, cur.url)
  /\ net' = net + 1
  /\ \E ok \in BOOLEAN :
       IF ok
       THEN /\ fs' = WriteFile(fs, cur.tmp, [src |-> Resource(cur.req), len |-> 0])
            /\ pc' = "stream"
            /\ raised' = ""
       ELSE /\ raised' = "FTPError"
            /\ pc' = "except"
            /\ fs' = fs
  /\ UNCHANGED <<storeVars, pureVars, script, retries, fs0, walked, work, cur, attempt, e, sleeps,
                 ret, summary, fetched, exc>>

\* f.write(chunk) for the next chunk of the body
StreamChunk ==
  /\ pc = "stream"
  /\ fs[cur.tmp].len < BodyLen(fs[cur.tmp].src)
  /\ fs' = [fs EXCEPT ![cur.tmp].len = @ + 1]
  /\ UNCHANGED <<storeVars, pureVars, script, retries, fs0, walked, work, cur, pc, attempt, raised, e,
                 sleeps, net, ret, summary, fetched, exc>>

\* the read breaks off mid-body (or, for FTP, ftp.quit() fails after it)
StreamFail ==
  /\ pc = "stream"
  /\ \/ fs[cur.tmp].len < BodyLen(fs[cur.tmp].src)
     \/ UsesFtp(script, cur.url)
  /\ raised' = IF UsesFtp(script, cur.url) THEN "FTPError" ELSE "IncompleteRead"
  /\ pc' = "except"
  /\ UNCHANGED <<storeVars, pureVars, script, retries, fs, fs0, walked, work, cur, attempt, e, sleeps,
                 net, ret, summary, fetched, exc>>

\* the body is complete: os.makedirs, shutil.move(tmp_local, dest_path),
\* return "Downloaded", os.path.getsize(dest_path)
MoveIntoPlace ==
  /\ pc = "stream"
  /\ fs[cur.tmp].len = BodyLen(fs[cur.tmp].src)
  /\ fs' = Move(fs, cur.tmp, cur.dest)
  /\ ret' = [status |-> Downloaded, size |-> GetSize(fs', cur.dest)]
  /\ pc' = "row"
  /\ UNCHANGED <<storeVars, pureVars, script, retries, fs0, walked, work, cur, attempt, raised, e,
                 sleeps, net, summary, fetched, exc>>

\* the except clause: e = err, remove tmp_local, sleep, next attempt
Except ==
  /\ pc = "except"
  /\ e' = raised
  /\ fs' = IF Exists(fs, cur.tmp) THEN Remove(fs, cur.tmp) ELSE fs
  /\ sleeps' = Append(sleeps, Delay(script, attempt))
  /\ attempt' = attempt + 1
  /\ raised' = ""
  /\ pc' = "attempt"
  /\ UNCHANGED <<storeVars, pureVars, script, retries, fs0, walked, work, cur, net, ret, summary,
                 fetched, exc>>

\* the loop is exhausted: return the error status and size 0
ReturnError ==
  /\ pc = "attempt"
  /\ ~HasAttemptLeft(attempt, retries)
  /\ ret' = [status |-> IF script = "from_tsv" THEN TsvErrorStatus(e) ELSE ErrorStatus(e),
             size |-> 0]
  /\ pc' = "row"
  /\ UNCHANGED <<storeVars, pureVars, script, retries, fs, fs0, walked, work, cur, attempt, raised, e,
                 sleeps, net, summary, fetched, exc>>

\* ------------------------------------------- the local orchestrators
\* the total taken from the last line only
SizeOfLast(lines) == IF lines = <<>> THEN 0 ELSE lines[Len(lines)].size

RECURSIVE SumSizes(_)
SumSizes(lines) ==
  IF lines = <<>> THEN 0 ELSE Head(lines).size + SumSizes(Tail(lines))

\* calculate_overall_size keeping the Overall line only
OverallOnly(lines) == <<OverallLine(SumSizes(Tail(lines)))>>

\* calculate_overall_size: skip the first line, add up the sizes, then
\* write the Overall line at offset 0 followed by the old content
calculate_overall_size(lines) ==
  <<OverallLine(SumSizes(Tail(lines)))>> \o lines

\* main: os.walk finds the next data-library.yaml and process_yaml loads it
\* (data-library-download.py processes the one YAML file it names); a run
\* fetches MaxItems items at most
WalkNext ==
  /\ pc = "main"
  /\ script \in {"data_library", "test_download"}
  /\ walked < (IF script = "data_library" THEN 1 ELSE MaxManifests)
  /\ \E m \in ManifestPool :
       /\ Len(fetched) + Len(SelectSeq(process_yaml(m), IsLeafOp)) <= MaxItems
       /\ work' = process_yaml(m)
  /\ walked' = walked + 1
  /\ pc' = "process_urls"
  /\ UNCHANGED <<storeVars, pureVars, script, retries, fs, fs0, cur, attempt, raised, e, sleeps, net,
                 ret, summary, fetched, exc>>

\* process_urls, one entry: no url, already there, or hand it to a helper
ProcessEntry ==
  /\ pc = "process_urls"
  /\ work # <<>>
  /\ Head(work).op = "url"
  /\ work' = Tail(work)
  /\ LET op == Head(work)
         filename == get_safe_filename_from_url(op.url, OUTPUT_DIR, op.path)
         cache_filename == get_safe_filename_from_url(op.url, CACHE_BASE, op.path)
     IN IF op.url = NoUrl
        THEN UNCHANGED <<fs, cur, pc, attempt, raised, e, sleeps, net, ret>>
        ELSE IF script = "data_library"
        THEN IF AlreadyThere(fs, filename)
             THEN SkipFetch(op.path, op.url, filename, filename, "File already exists")
             ELSE StartFetch(op.path, op.url, filename)
        ELSE IF AlreadyThere(fs, filename)
             THEN SkipFetch(op.path, op.url, cache_filename, filename, "Already in Onedata")
             ELSE IF AlreadyThere(fs, cache_filename)
             THEN SkipFetch(op.path, op.url, cache_filename, cache_filename,
                            "Already in local cache")
             ELSE StartFetch(op.path, op.url, cache_filename)
  /\ UNCHANGED <<storeVars, pureVars, script, retries, fs0, walked, summary, fetched, exc>>

\* update_urls_file appends the entry's row; download_from_tsv.py prints it
update_urls_file ==
  /\ pc = "row"
  /\ summary' = IF script = "from_tsv" THEN summary
                ELSE Append(summary, ItemLine(cur.path, cur.url, ret.status, ret.size))
  /\ fetched' = Append(fetched, [url |-> cur.url, dest |-> cur.dest,
                                 file |-> IF ret.status.kind = "Skipped" THEN cur.tmp
                                          ELSE cur.dest,
                                 net |-> net, status |-> ret.status, size |-> ret.size])
  /\ pc' = IF script = "from_tsv" THEN "main" ELSE "process_urls"
  /\ UNCHANGED <<storeVars, pureVars, script, retries, fs, fs0, walked, work, cur, attempt, raised, e,
                 sleeps, net, ret, exc>>

\* process_yaml has walked the whole manifest and returns to main
EndManifest ==
  /\ pc = "process_urls"
  /\ work = <<>>
  /\ pc' = "main"
  /\ UNCHANGED <<storeVars, pureVars, script, retries, fs, fs0, walked, work, cur, attempt, raised, e,
                 sleeps, net, ret, summary, fetched, exc>>

\* an exception of process_yaml: neither it nor main has a handler
Uncaught ==
  /\ pc = "process_urls"
  /\ work # <<>>
  /\ Head(work).op = "raise"
  /\ exc' = Head(work).exc
  /\ pc' = "aborted"
  /\ UNCHANGED <<storeVars, pureVars, script, retries, fs, fs0, walked, work, cur, attempt, raised, e,
                 sleeps, net, ret, summary, fetched>>

\* main of download_from_tsv.py, one line of the TSV file
TsvNext ==
  /\ pc = "main"
  /\ script = "from_tsv"
  /\ walked < MaxLines
  /\ walked' = walked + 1
  /\ \E line \in TsvLines :
       LET path == normalize_path(line.path)
       IN IF line.kind # "entry"
          THEN UNCHANGED <<fs, cur, pc, attempt, raised, e, sleeps, net, ret>>
          ELSE IF AlreadyThere(fs, path)
          THEN SkipFetch(path.sub, line.url, path, path, "exists")
          ELSE StartFetch(path.sub, line.url, path)
  /\ UNCHANGED <<storeVars, pureVars, script, retries, fs0, work, summary, fetched, exc>>

\* the walk is over: calculate_overall_size, and main ends
Finish ==
  /\ pc = "main"
  /\ script = "data_library" => walked = 1
  /\ summary' = IF script = "from_tsv" THEN summary ELSE calculate_overall_size(summary)
  /\ pc' = "done"
  /\ UNCHANGED <<storeVars, pureVars, script, retries, fs, fs0, walked, work, cur, attempt, raised, e,
                 sleeps, net, ret, fetched, exc>>

NextFetch ==
  \/ WalkNext
  \/ TsvNext
  \/ ProcessEntry
  \/ HttpGet
  \/ FtpConnect
  \/ StreamChunk
  \/ StreamFail
  \/ MoveIntoPlace
  \/ Except
  \/ ReturnError
  \/ update_urls_file
  \/ EndManifest
  \/ Uncaught
  \/ Finish

vars == <<fetchVars, storeVars, pureVars>>

SpecFetch == InitFetch /\ [][NextFetch]_vars

\* ------------------------------------------------- the remote store
TMP_DIR == "/tmp/gtn-api-upload"

\* The upload script has no retrying helper and no summary file.
HelperIdle ==
  /\ retries = 1
  /\ work = <<>>
  /\ cur = NoCur
  /\ attempt = 0
  /\ raised = ""
  /\ e = "None"
  /\ sleeps = <<>>
  /\ net = 0
  /\ ret = NoRet
  /\ summary = <<>>
  /\ fetched = <<>>

helperVars ==
  <<retries, work, cur, attempt, raised, e, sleeps, net, ret, summary, fetched>>

ChildrenOf(rem, parent_id) == {i \in DOMAIN rem : rem[i].parent = parent_id}
Named(rem, parent_id, name) == {i \in ChildrenOf(rem, parent_id) : rem[i].name = name}
NewId(rem) == Cardinality(DOMAIN rem) + 1

\* What the provider answers to POST {parent}/children?name=X[&type=DIR]:
\* health is "ok" or the status of a failure that has nothing to do with X.
ServerPost(rem, parent_id, name, type, content, health) ==
  IF health # "ok"
  THEN [status |-> health, fileId |-> None, remote |-> rem]
  ELSE IF Named(rem, parent_id, name) # {}
  THEN [status |-> "400 eexist", fileId |-> None, remote |-> rem]
  ELSE [status |-> "201", fileId |-> NewId(rem),
        remote |-> [i \in DOMAIN rem \cup {NewId(rem)} |->
                      IF i \in DOMAIN rem THEN rem[i]
                      ELSE [parent |-> parent_id, name |-> name, type |-> type,
                            content |-> content]]]

Faults == {"500", "403"}
PostHealth == {"ok"} \cup Faults
ListAnswers == {"200", "500"}

\* get_children: the listing, or [] when the answer is not 200
get_children(rem, parent_id, answer) ==
  IF answer = "200"
  THEN {[name |-> rem[i].name, fileId |-> i] : i \in ChildrenOf(rem, parent_id)}
  ELSE {}

\* get_child_id: the fileId of the child of that name, or None
get_child_id(rem, parent_id, name, answer) ==
  LET found == {c \in get_children(rem, parent_id, answer) : c.name = name}
  IN IF found = {} THEN None ELSE (CHOOSE c \in found : TRUE).fileId

\* file_exists that never finds the name
NeverListed(rem, parent_id, name, answer) == FALSE

\* file_exists
file_exists(rem, parent_id, name, answer) ==
  \E c \in get_children(rem, parent_id, answer) : c.name = name

\* create_directory with a conflict taken for a failure
create_directory_conflict_fails(rem, parent_id, name, health, answer) ==
  LET r == ServerPost(rem, parent_id, name, "DIR", NoContent, health)
  IN [ret |-> IF r.status = "201" THEN r.fileId ELSE None,
      post |-> IF name = <<>> THEN "none" ELSE r.status,
      remote |-> IF name = <<>> THEN rem ELSE r.remote]

\* create_directory: what it returns, what its POST was answered, and the
\* store afterwards; answer is what a listing is answered
create_directory(rem, parent_id, name, health, answer) ==
  IF name = <<>>
  THEN [ret |-> None, post |-> "none", remote |-> rem]
  ELSE LET r == ServerPost(rem, parent_id, name, "DIR", NoContent, health)
       IN IF r.status = "201"
          THEN [ret |-> r.fileId, post |-> r.status, remote |-> r.remote]
          ELSE IF r.status = "400 eexist"
          THEN [ret |-> get_child_id(r.remote, parent_id, name, answer),
                post |-> r.status, remote |-> r.remote]
          ELSE [ret |-> None, post |-> r.status, remote |-> r.remote]

\* what session.post can come to: an answer, or an exception
PostOutcomes == PostHealth \cup {"ConnectionError", "SSLError"}

\* upload_file with the conflict reported as a failure
upload_file_conflict_fails(rem, f, parent_id, local_path, dest_name, first, second) ==
  IF ~Exists(f, local_path)
  THEN [ret |-> FALSE, post |-> "none", raised |-> "", remote |-> rem, fs |-> f]
  ELSE LET r == ServerPost(rem, parent_id, dest_name, "REG", f[local_path], "ok")
       IN [ret |-> r.status = "201", post |-> r.status, raised |-> "",
           remote |-> r.remote, fs |-> Remove(f, local_path)]

\* upload_file: first is what the POST comes to, second what the POST
\* repeated with verify=False comes to after an SSLError
upload_file(rem, f, parent_id, local_path, dest_name, first, second) ==
  IF ~Exists(f, local_path)
  THEN [ret |-> FALSE, post |-> "none", raised |-> "", remote |-> rem, fs |-> f]
  ELSE LET outcome == IF first = "SSLError" THEN second ELSE first
       IN IF outcome \notin PostHealth
          THEN [ret |-> FALSE, post |-> "none", raised |-> outcome,
                remote |-> rem, fs |-> f]
          ELSE LET r == ServerPost(rem, parent_id, dest_name, "REG",
                                   f[local_path], outcome)
               IN [ret |-> r.status \in {"201", "400 eexist"},
                   post |-> r.status, raised |-> "",
                   remote |-> r.remote, fs |-> Remove(f, local_path)]

\* ------------------------------------- the client, one call at a time
DirNames == {sanitize_name(N_GM), <<>>}
FileNames == {F_a, F_e}
LocalFile(name) == FilePath(TMP_DIR, <<>>, name)
Dirs(rem) == {i \in DOMAIN rem : rem[i].type = "DIR"}

LogEntry(op, parent_id, name, local_path, r) ==
  [op |-> op, parent |-> parent_id, name |-> name, local |-> local_path,
   post |-> r.post, listing |-> r.listing, id |-> r.id, ok |-> r.ok,
   raised |-> r.raised]

InitStore ==
  /\ script = "api_client"
  /\ fs0 = EmptyFs
  /\ fs = fs0
  /\ walked = 0
  /\ pc = "client"
  /\ exc = ""
  /\ HelperIdle
  /\ remote = RootOnly
  /\ oplog = <<>>
  /\ token = "token"
  /\ todo = <<>>
  /\ ids = <<>>
  /\ item = NoItem
  /\ HistIdle
  /\ PureIdle

\* a file is downloaded to the temp directory
PutLocal ==
  /\ pc = "client"
  /\ Len(oplog) < MaxCalls
  /\ \E name \in FileNames :
       /\ ~Exists(fs, LocalFile(name))
       /\ fs' = WriteFile(fs, LocalFile(name), [src |-> name, len |-> BodyLen(name)])
  /\ UNCHANGED <<helperVars, pureVars, script, fs0, walked, pc, exc, storeVars>>

CallCreateDirectory ==
  /\ pc = "client"
  /\ Len(oplog) < MaxCalls
  /\ \E parent_id \in Dirs(remote), name \in DirNames, health \in PostHealth,
        answer \in ListAnswers :
       LET r == create_directory(remote, parent_id, name, health, answer)
       IN /\ remote' = r.remote
          /\ oplog' = Append(oplog,
               LogEntry("create_directory", parent_id, name, LocalFile(<<>>),
                        [post |-> r.post, listing |-> answer, id |-> r.ret,
                         ok |-> FALSE, raised |-> ""]))
  /\ UNCHANGED <<helperVars, pureVars, script, fs, fs0, walked, pc, exc, token, todo, ids, item, histVars>>

CallUploadFile ==
  /\ pc = "client"
  /\ Len(oplog) < MaxCalls
  /\ \E parent_id \in Dirs(remote), name \in FileNames, first \in PostOutcomes,
        second \in PostOutcomes :
       LET r == upload_file(remote, fs, parent_id, LocalFile(name), name, first, second)
       IN /\ remote' = r.remote
          /\ fs' = r.fs
          /\ oplog' = Append(oplog,
               LogEntry("upload_file", parent_id, name, LocalFile(name),
                        [post |-> r.post, listing |-> "none", id |-> None,
                         ok |-> r.ret, raised |-> r.raised]))
  /\ UNCHANGED <<helperVars, pureVars, script, fs0, walked, pc, exc, token, todo, ids, item, histVars>>

CallFileExists ==
  /\ pc = "client"
  /\ Len(oplog) < MaxCalls
  /\ \E parent_id \in Dirs(remote), name \in FileNames, answer \in ListAnswers :
       oplog' = Append(oplog,
         LogEntry("file_exists", parent_id, name, LocalFile(<<>>),
                  [post |-> "none", listing |-> answer, id |-> None,
                   ok |-> file_exists(remote, parent_id, name, answer),
                   raised |-> ""]))
  /\ UNCHANGED <<helperVars, pureVars, script, fs, fs0, walked, pc, exc, remote, token, todo,
                 ids, item, histVars>>

NextStore ==
  \/ PutLocal
  \/ CallCreateDirectory
  \/ CallUploadFile
  \/ CallFileExists

SpecStore == InitStore /\ [][NextStore]_vars

\* ------------------------------------------- the upload orchestrator
\* The defaults of api_upload.py's process_yaml for a missing name.
N_Unknown == <<"U", "n", "k", "n", "o", "w", "n">>
N_UnnamedTopic == <<"U", "n", "n", "a", "m", "e", "d", "-", "T", "o", "p", "i", "c">>
N_TutorialDefault == <<"T", "u", "t", "o", "r", "i", "a", "l">>
EmptyDict == [k \in {} |-> <<>>]

\* The walk of process_yaml as a sequence of steps: create_directory for a
\* folder at a depth (1 is the destination), handle_file_upload for a url
\* below the folder of the depth above.
DirOp(depth, name) == [op |-> "dir", depth |-> depth, name |-> name, url |-> NoUrl]
FileOp(depth, url) == [op |-> "file", depth |-> depth, name |-> <<>>, url |-> url]

\* url = item.get("url"); if url: handle_file_upload(url, parent)
HasUrl(entry) == Get(entry, "url", NoUrl) # NoUrl
FileOps(depth, items) ==
  LET withUrl == SelectSeq(items, HasUrl)
  IN [i \in DOMAIN withUrl |-> FileOp(depth, withUrl[i].url)]

UploadDoiOps(doi) ==
  <<DirOp(4, sanitize_name(Get(doi, "name", <<>>)))>>
    \o FileOps(5, Get(doi, "items", <<>>))

UploadTutorialOps(tutorial) ==
  LET items == Get(tutorial, "items", <<>>)
      has_direct_urls == \E i \in DOMAIN items : "url" \in DOMAIN items[i]
  IN <<DirOp(3, sanitize_name(Get(tutorial, "name", N_TutorialDefault)))>>
       \o (IF has_direct_urls THEN FileOps(4, items)
           ELSE Flatten([i \in DOMAIN items |-> UploadDoiOps(items[i])]))

UploadTopicOps(topic) ==
  LET tutorials == Get(topic, "items", <<>>)
  IN <<DirOp(2, sanitize_name(Get(topic, "name", N_UnnamedTopic)))>>
       \o Flatten([i \in DOMAIN tutorials |-> UploadTutorialOps(tutorials[i])])

\* process_yaml of api_upload.py, after yaml.safe_load gave a mapping
upload_process_yaml(data) ==
  LET topics == Get(data, "items", <<>>)
  IN <<DirOp(1, sanitize_name(Get(Get(data, "destination", EmptyDict),
                                   "name", N_Unknown)))>>
       \o Flatten([i \in DOMAIN topics |-> UploadTopicOps(topics[i])])

\* a failed create_directory abandoning the rest of the manifest
AbandonManifest(ops, depth) == <<>>

RECURSIVE DropBranch(_, _)
\* "return" / "continue" after a failed create_directory: nothing below the
\* folder of that depth is walked
DropBranch(ops, depth) ==
  IF ops = <<>> \/ Head(ops).depth <= depth THEN ops
  ELSE DropBranch(Tail(ops), depth)

\* TMP_DIR itself, as an entry of the local files
TmpDirPath == FilePath(TMP_DIR, <<>>, <<>>)
Directory == [src |-> <<>>, len |-> 0]

\* ensure_tmp_clean: shutil.rmtree(TMP_DIR), os.makedirs(TMP_DIR)
ensure_tmp_clean(f) ==
  WriteFile([q \in {p \in DOMAIN f : p.base # TMP_DIR} |-> f[q]], TmpDirPath, Directory)

\* What a previous run may have left: no TMP_DIR, or TMP_DIR with a file.
LeftInTmp ==
  {EmptyFs,
   WriteFile(WriteFile(EmptyFs, TmpDirPath, Directory),
             LocalFile(F_a), [src |-> F_a, len |-> 1])}

\* main's test of TOKEN taking any value for a token
AnyToken(t) == TRUE

\* if not TOKEN
HasToken(t) == t # ""

\* What download_http's requests.get, raise_for_status and iter_content can
\* come to, and the exceptions of the requests calls of the client.
DownloadOutcomes == HttpErrors \cup {"200", "IncompleteRead"}
NetworkErrors == {"ConnectionError", "Timeout", "HTTPError 500", "IncompleteRead"}

\* The remote store as an earlier run of M_direct may have left it.
Populated ==
  <<RootOnly[ROOT_ID],
    [parent |-> 1, name |-> sanitize_name(N_GM), type |-> "DIR", content |-> NoContent],
    [parent |-> 2, name |-> sanitize_name(N_T), type |-> "DIR", content |-> NoContent],
    [parent |-> 3, name |-> sanitize_name(N_U), type |-> "DIR", content |-> NoContent],
    [parent |-> 4, name |-> F_a, type |-> "REG",
     content |-> [src |-> F_a, len |-> BodyLen(F_a)]]>>

InitUpload ==
  /\ script = "api_upload"
  /\ token \in {"", "token"}
  /\ fs0 \in LeftInTmp
  /\ fs = fs0
  /\ walked = 0
  /\ pc = "main"
  /\ exc = ""
  /\ HelperIdle
  /\ remote \in {RootOnly, Populated}
  /\ HistIdle
  /\ PureIdle
  /\ oplog = <<>>
  /\ todo = <<>>
  /\ ids = <<>>
  /\ item = NoItem

\* main: if not TOKEN: return
MissingToken ==
  /\ pc = "main"
  /\ ~HasToken(token)
  /\ pc' = "done"
  /\ UNCHANGED <<helperVars, pureVars, script, fs, fs0, walked, exc, storeVars>>

\* main: ensure_tmp_clean()
EnsureTmpClean ==
  /\ pc = "main"
  /\ HasToken(token)
  /\ fs' = ensure_tmp_clean(fs)
  /\ pc' = "walk"
  /\ UNCHANGED <<helperVars, pureVars, script, fs0, walked, exc, storeVars>>

\* main: os.walk finds the next data-library.yaml; process_yaml loads it
\* (an invalid YAML is printed and skipped; an empty one loads as None and
\* data.get raises)
UploadWalkNext ==
  /\ pc = "walk"
  /\ walked < MaxManifests
  /\ walked' = walked + 1
  /\ ids' = <<>>
  /\ \E m \in UploadPool :
       /\ loaded' = Append(loaded, m)
       /\ CASE m.yaml = "invalid" ->
                 /\ todo' = <<>>
                 /\ pc' = "walk"
                 /\ exc' = exc
            [] m.yaml = "none" ->
                 /\ todo' = <<>>
                 /\ pc' = "aborted"
                 /\ exc' = "AttributeError"
            [] OTHER ->
                 /\ todo' = upload_process_yaml(m.data)
                 /\ pc' = "process_yaml"
                 /\ exc' = exc
  /\ UNCHANGED <<helperVars, pureVars, script, fs, fs0, remote, oplog, token, item, remote0,
                 traffic>>

\* the parent of the step at a depth: ROOT_ID for the destination
ParentId(depth) == IF depth = 1 THEN ROOT_ID ELSE ids[depth - 1]

\* process_yaml: create_directory for the next folder; None abandons what
\* is below it; an exception of requests.post has no handler
EnsureFolder ==
  /\ pc = "process_yaml"
  /\ todo # <<>>
  /\ Head(todo).op = "dir"
  /\ LET d == Head(todo).depth
     IN \E out \in PostHealth \cup {"ConnectionError"}, answer \in ListAnswers :
          IF out \notin PostHealth /\ Head(todo).name # <<>>
          THEN /\ exc' = out
               /\ pc' = "aborted"
               /\ traffic' = [traffic EXCEPT !.faults = TRUE]
               /\ UNCHANGED <<remote, todo, ids>>
          ELSE LET r == create_directory(remote, ParentId(d), Head(todo).name,
                                         IF out \in PostHealth THEN out ELSE "ok",
                                         answer)
               IN /\ remote' = r.remote
                  /\ todo' = IF r.ret = None THEN DropBranch(Tail(todo), d)
                             ELSE Tail(todo)
                  /\ ids' = Append(SubSeq(ids, 1, d - 1), r.ret)
                  /\ traffic' = [traffic EXCEPT !.faults =
                                   @ \/ r.post \in Faults
                                     \/ (r.post = "400 eexist" /\ answer # "200")]
                  /\ UNCHANGED <<pc, exc>>
  /\ UNCHANGED <<helperVars, pureVars, script, fs, fs0, walked, oplog, token, item, remote0,
                 loaded>>

\* handle_file_upload up to the download: skip a name the folder lists
HandleFile ==
  /\ pc = "process_yaml"
  /\ todo # <<>>
  /\ Head(todo).op = "file"
  /\ todo' = Tail(todo)
  /\ LET url == Head(todo).url
         parent_id == ParentId(Head(todo).depth)
         filename == SafeFileName(url)
     IN \E answer \in ListAnswers :
          /\ traffic' = [traffic EXCEPT !.faults = @ \/ answer # "200"]
          /\ IF file_exists(remote, parent_id, filename, answer)
             THEN UNCHANGED <<pc, item>>
             ELSE /\ item' = [url |-> url, parent |-> parent_id, filename |-> filename,
                              local |-> LocalFile(filename)]
                  /\ pc' = "download"
  /\ UNCHANGED <<helperVars, pureVars, script, fs, fs0, walked, exc, remote, oplog, token, ids,
                 remote0, loaded>>

\* download_file: download_ftp catches everything and returns None;
\* download_http returns None for 403/404 and lets every other failure out
DownloadFile ==
  /\ pc = "download"
  /\ LET body == [src |-> Resource(item.url), len |-> BodyLen(Resource(item.url))]
         opened == [src |-> Resource(item.url), len |-> 0]
         Returned(f) == fs' = f /\ pc' = "process_yaml" /\ exc' = exc /\ item' = NoItem
         Fetched == fs' = WriteFile(fs, item.local, body) /\ pc' = "upload"
                      /\ exc' = exc /\ item' = item
         Raised(f, x) == fs' = f /\ pc' = "aborted" /\ exc' = x /\ item' = item
     IN IF item.url.scheme = "ftp"
        THEN \E ok \in BOOLEAN, written \in BOOLEAN :
               IF ok THEN Fetched
               ELSE Returned(IF written THEN WriteFile(fs, item.local, opened) ELSE fs)
        ELSE \E out \in DownloadOutcomes :
               CASE out = "200" -> Fetched
                 [] out \in {"HTTPError 403", "HTTPError 404"} -> Returned(fs)
                 [] out = "IncompleteRead" ->
                      Raised(WriteFile(fs, item.local, opened), out)
                 [] OTHER -> Raised(fs, out)
  /\ traffic' = [traffic EXCEPT !.downloads = @ + 1]
  /\ UNCHANGED <<helperVars, pureVars, script, fs0, walked, remote, oplog, token, todo, ids,
                 remote0, loaded>>

\* handle_file_upload after the download: upload_file, and on success
\* os.remove(local_file), which raises when the file is not there
UploadAndRemove ==
  /\ pc = "upload"
  /\ \E first \in PostOutcomes, second \in PostOutcomes :
       LET r == upload_file(remote, fs, item.parent, item.local, item.filename,
                            first, second)
       IN /\ remote' = r.remote
          /\ traffic' = [traffic EXCEPT
                           !.uploads = IF Exists(fs, item.local) THEN @ + 1 ELSE @,
                           !.faults = @ \/ r.raised # "" \/ r.post \in Faults]
          /\ IF r.raised # ""
             THEN /\ exc' = r.raised
                  /\ pc' = "aborted"
                  /\ fs' = r.fs
                  /\ item' = item
             ELSE IF r.ret /\ ~Exists(r.fs, item.local)
             THEN /\ exc' = "FileNotFoundError"
                  /\ pc' = "aborted"
                  /\ fs' = r.fs
                  /\ item' = item
             ELSE /\ exc' = exc
                  /\ pc' = "process_yaml"
                  /\ fs' = IF r.ret THEN Remove(r.fs, item.local) ELSE r.fs
                  /\ item' = NoItem
  /\ UNCHANGED <<helperVars, pureVars, script, fs0, walked, oplog, token, todo, ids, remote0,
                 loaded>>

\* process_yaml returns to main's walk
EndUploadManifest ==
  /\ pc = "process_yaml"
  /\ todo = <<>>
  /\ pc' = "walk"
  /\ UNCHANGED <<helperVars, pureVars, script, fs, fs0, walked, exc, storeVars>>

\* the walk is over: "Finished full upload run."
UploadFinish ==
  /\ pc = "walk"
  /\ pc' = "done"
  /\ UNCHANGED <<helperVars, pureVars, script, fs, fs0, walked, exc, storeVars>>

NextUpload ==
  \/ MissingToken
  \/ EnsureTmpClean
  \/ UploadWalkNext
  \/ EnsureFolder
  \/ HandleFile
  \/ DownloadFile
  \/ UploadAndRemove
  \/ EndUploadManifest
  \/ UploadFinish

SpecUpload == InitUpload /\ [][NextUpload]_vars

\* ------------------------------------------- sanitize_name on its own
\* The characters names are made of: those the pattern names and others.
Alphabet == Forbidden \cup {"a", "Z", "0", "-", "_"}
Names == UNION {[1..k -> Alphabet] : k \in 0..MaxLen}

InitSanitize ==
  /\ script = "sanitize_name"
  /\ name_in \in Names
  /\ name_out = <<>>
  /\ pc = "call"
  /\ fs0 = EmptyFs
  /\ fs = fs0
  /\ walked = 0
  /\ exc = ""
  /\ HelperIdle
  /\ StoreIdle

\* sanitize_name(name)
CallSanitize ==
  /\ pc = "call"
  /\ name_out' = sanitize_name(name_in)
  /\ pc' = "return"
  /\ UNCHANGED <<helperVars, storeVars, script, fs, fs0, walked, exc, name_in>>

NextSanitize == CallSanitize

SpecSanitize == InitSanitize /\ [][NextSanitize]_vars

\* ------------------------------------------------ claims on the fetch
IsStaging(p) == p.base \in {TMP_BASE, TSV_TMP_BASE}

SameFetch(a, b) == a.url = b.url /\ a.dest = b.dest

SkippedWithSize(r) ==
  /\ r.net = 0
  /\ r.status.kind = "Skipped"
  /\ Exists(fs, r.file)
  /\ r.size = GetSize(fs, r.file)

\* C2 as stated: of two fetches in a row of the same (url, destPath), the
\* second makes no network request and is skipped with the existing size.
C2_Original ==
  \A i \in 2..Len(fetched) :
    SameFetch(fetched[i - 1], fetched[i]) => SkippedWithSize(fetched[i])

\* C2 amended: of two fetches in a row of the same (url, destPath), when the
\* first left a non-empty file (Downloaded or skipped, with a size above 0),
\* the second makes no network request and is skipped with the existing size.
C2_SecondFetchSkipped ==
  \A i \in 2..Len(fetched) :
    (/\ SameFetch(fetched[i - 1], fetched[i])
     /\ fetched[i - 1].status.kind \in {"Downloaded", "Skipped"}
     /\ fetched[i - 1].size > 0)
      => SkippedWithSize(fetched[i])

\* C2 witness: a download that used the network, then the same fetch skipped.
C2_Witness ==
  /\ Len(fetched) >= 2
  /\ SameFetch(fetched[1], fetched[2])
  /\ fetched[1].status = Downloaded
  /\ fetched[1].net >= 1
  /\ fetched[1].size > 0
  /\ fetched[2].status.kind = "Skipped"
  /\ fetched[2].net = 0
  /\ fetched[2].size = fetched[1].size

NonDecreasing(s) == \A i \in 1..(Len(s) - 1) : s[i] <= s[i + 1]

\* C3: a fetch with retries = N+1 that has met N failures returns only
\* with status Downloaded, after exactly N+1 requests, and the N delays it
\* slept in between are non-decreasing.
C3_RetriedThenDownloaded ==
  (pc = "row" /\ ret.status.kind # "Skipped" /\ attempt = retries - 1)
    => /\ ret.status = Downloaded
       /\ net = retries
       /\ Len(sleeps) = retries - 1
       /\ NonDecreasing(sleeps)

\* C3 witness: two failures, then the third of three attempts succeeds.
C3_Witness ==
  /\ pc = "row"
  /\ retries = 3
  /\ attempt = 2
  /\ ret.status = Downloaded
  /\ net = 3
  /\ sleeps = <<DefaultBackoff, 2 * DefaultBackoff>>

\* C4 as stated: when all of the retries attempts have failed, the fetch
\* returns the Error status that carries the last error, with size 0.
C4_ErrorCarriesLast ==
  (pc = "row" /\ ret.status.kind # "Skipped" /\ attempt = retries)
    => ret = [status |-> ErrorStatus(e), size |-> 0]

NotFound == {"HTTPError 403", "HTTPError 404"}

\* C5 as stated: once a request of the fetch was answered 403 or 404, the
\* fetch has made that one request only and has slept no backoff delay.
C5_NotFoundIsTerminal ==
  e \in NotFound => (net <= 1 /\ sleeps = <<>>)

ManifestErrors == {"YAMLError", "TypeError", "KeyError", "AttributeError"}

\* C7 as stated, for the walk of test-download.py: a manifest that does not
\* parse or lacks destination.name or items never ends the run.
C7_BadManifestSkipped ==
  script = "test_download" => ~(pc = "aborted" /\ exc \in ManifestErrors)

\* ------------------------------------- claims on the remote store client
IsCall(r, op) == r.op = op
SameDir(a, b) == a.parent = b.parent /\ a.name = b.name

\* C8: of two create_directory calls with the same (parentId, name), when
\* the first was answered 201 and the second "already exists" with its
\* listing answered, the second returns the first's fileId, not None.
C8_SameFolderId ==
  \A i, j \in DOMAIN oplog :
    (/\ i < j
     /\ IsCall(oplog[i], "create_directory")
     /\ IsCall(oplog[j], "create_directory")
     /\ SameDir(oplog[i], oplog[j])
     /\ oplog[i].post = "201"
     /\ oplog[j].post = "400 eexist"
     /\ oplog[j].listing = "200")
      => (oplog[j].id = oplog[i].id /\ oplog[j].id # None)

\* C8 witness: a folder created (201) and then asked for again (conflict).
C8_Witness ==
  /\ Len(oplog) >= 2
  /\ IsCall(oplog[1], "create_directory")
  /\ IsCall(oplog[2], "create_directory")
  /\ SameDir(oplog[1], oplog[2])
  /\ oplog[1].post = "201"
  /\ oplog[2].post = "400 eexist"
  /\ oplog[2].id = oplog[1].id
  /\ oplog[2].id \in DOMAIN remote

LastCall(log) == log[Len(log)]

\* C9: an upload_file call that got an answer raises nothing and returns
\* success exactly when the answer is 201 or the "already exists" conflict;
\* on the conflict the remote store is left as it was.
C9_UploadReportsOutcome ==
  [][(/\ Len(oplog') = Len(oplog) + 1
      /\ IsCall(LastCall(oplog'), "upload_file")
      /\ LastCall(oplog').post # "none")
       => /\ LastCall(oplog').raised = ""
          /\ LastCall(oplog').ok = (LastCall(oplog').post \in {"201", "400 eexist"})
          /\ (LastCall(oplog').post = "400 eexist" => remote' = remote)]_vars

\* C9 witness: an upload answered 201, a second one of the same name
\* answered with the conflict and reported as success, the remote file as
\* the first upload left it, and a third one answered 500 and reported failed.
C9_Witness ==
  /\ Len(oplog) >= 3
  /\ \A i \in 1..3 : IsCall(oplog[i], "upload_file") /\ oplog[i].name = F_a
                       /\ oplog[i].parent = ROOT_ID /\ oplog[i].raised = ""
  /\ oplog[1].post = "201" /\ oplog[1].ok
  /\ oplog[2].post = "400 eexist" /\ oplog[2].ok
  /\ oplog[3].post = "500" /\ ~oplog[3].ok
  /\ \E i \in DOMAIN remote : remote[i].name = F_a /\ remote[i].content.len = 2

SameUpload(a, b) == a.parent = b.parent /\ a.name = b.name /\ a.local = b.local

\* C10 as stated: an upload_file call that repeats an earlier successful one
\* with the same arguments, and meets no failure of the remote, reports
\* success again.
C10_RepeatedUploadSucceeds ==
  \A i, j \in DOMAIN oplog :
    (/\ i < j
     /\ IsCall(oplog[i], "upload_file")
     /\ IsCall(oplog[j], "upload_file")
     /\ SameUpload(oplog[i], oplog[j])
     /\ oplog[i].ok
     /\ oplog[j].raised = ""
     /\ oplog[j].post \notin Faults)
      => oplog[j].ok

\* ------------------------------------------- claims on the upload run
\* C6 as stated: no network or protocol failure met while an item is
\* transferred ends the run of api_upload.py with an uncaught exception.
C6_NetworkFailureNeverAborts ==
  (script = "api_upload" /\ item # NoItem)
    => ~(pc = "aborted" /\ exc \in NetworkErrors)

\* C11: when create_directory returns None for a folder, the walk goes on
\* with the first later step that is not beneath that folder (a sibling
\* folder, or the end of the manifest for the destination): nothing
\* beneath it is handled, nothing is created, fetched or sent, and the run
\* is not ended.
C11_FailedFolderDropsOnlyItsBranch ==
  [][(/\ script = "api_upload"
      /\ pc = "process_yaml"
      /\ todo # <<>>
      /\ Head(todo).op = "dir"
      /\ pc' # "aborted"
      /\ ids'[Head(todo).depth] = None)
       => LET d == Head(todo).depth
              rest == Tail(todo)
          IN /\ pc' = "process_yaml"
             /\ remote' = remote
             /\ fs' = fs
             /\ \E k \in 0..Len(rest) :
                  /\ todo' = SubSeq(rest, k + 1, Len(rest))
                  /\ \A i \in 1..k : rest[i].depth > d
                  /\ (k < Len(rest) => rest[k + 1].depth <= d)]_vars

\* C11 witness: a tutorial folder of M_siblings has failed while its
\* topic exists, and the walk stands at the sibling tutorial.
C11_Witness ==
  /\ script = "api_upload"
  /\ pc = "process_yaml"
  /\ Len(ids) = 3
  /\ ids[2] # None
  /\ ids[3] = None
  /\ todo # <<>>
  /\ Head(todo) = DirOp(3, sanitize_name(N_V))

\* C12 as stated: when the upload of an item is confirmed (the remote
\* holds the file and the temp copy is gone), handling of the item does
\* not end in an exception of the deletion step.
C12_ConfirmedUploadCompletes ==
  (/\ script = "api_upload"
   /\ item # NoItem
   /\ Named(remote, item.parent, item.filename) # {}
   /\ ~Exists(fs, item.local))
    => ~(pc = "aborted" /\ exc = "FileNotFoundError")

RECURSIVE HoldsAll(_, _, _)
\* the remote store holds every folder and file of a manifest's walk
HoldsAll(rem, ops, stack) ==
  IF ops = <<>> THEN TRUE
  ELSE LET o == Head(ops)
           parent_id == IF o.depth = 1 THEN ROOT_ID ELSE stack[o.depth - 1]
           found == Named(rem, parent_id,
                          IF o.op = "dir" THEN o.name ELSE SafeFileName(o.url))
       IN /\ found # {}
          /\ HoldsAll(rem, Tail(ops),
                      IF o.op = "dir"
                      THEN Append(SubSeq(stack, 1, o.depth - 1), CHOOSE i \in found : TRUE)
                      ELSE stack)

Held(rem, m) ==
  m.yaml = "invalid" \/ (m.yaml = "ok" /\ HoldsAll(rem, upload_process_yaml(m.data), <<>>))

\* C13: in a run of api_upload.py whose remote store held, when it
\* started, every folder and file of the manifests it has loaded, and in
\* which the provider has answered every request, nothing has been
\* downloaded, no file body has been sent, the remote store is as it was,
\* and every folder of the current branch has resolved to an existing id.
C13_RerunTransfersNothing ==
  (/\ script = "api_upload"
   /\ ~traffic.faults
   /\ \A i \in DOMAIN loaded : Held(remote0, loaded[i]))
    => /\ traffic.downloads = 0
       /\ traffic.uploads = 0
       /\ remote = remote0
       /\ pc \notin {"download", "upload", "aborted"}
       /\ \A d \in DOMAIN ids : ids[d] \in DOMAIN remote0

\* C13 witness: M_direct has been walked to its end against the remote
\* store that holds it; its item was found there and skipped.
C13_Witness ==
  /\ script = "api_upload"
  /\ pc = "process_yaml"
  /\ todo = <<>>
  /\ loaded = <<M_direct>>
  /\ remote0 = Populated
  /\ ~traffic.faults
  /\ Len(ids) = 3
  /\ Named(remote, ids[3], F_a) # {}
  /\ traffic.downloads = 0
  /\ traffic.uploads = 0

\* ------------------------------------------- claims on the summary file
ManifestScripts == {"data_library", "test_download"}

\* C14 as stated: once main has finalised the summary, its first line is
\* the header, its second line the Overall row, and the item rows follow.
C14_HeaderThenOverall ==
  (script \in ManifestScripts /\ pc = "done")
    => /\ Len(summary) >= 2
       /\ summary[1].kind = "header"
       /\ summary[2].kind = "overall"
       /\ \A i \in 3..Len(summary) : summary[i].kind = "item"

IsItemLine(line) == line.kind = "item"
Rows(lines) == SelectSeq(lines, IsItemLine)
HasRaise(ops) == \E i \in DOMAIN ops : ops[i].op = "raise"

\* The url-carrying leaves of a manifest, by position: the items of each
\* tutorial, or of each DOI group of a tutorial.
LeavesUnder(path, entries) ==
  LET withUrl == SelectSeq(entries, HasUrl)
  IN [i \in DOMAIN withUrl |-> [path |-> path, url |-> withUrl[i].url]]
TutorialLeaves(path, tutorial) ==
  LeavesUnder(path, tutorial.items)
    \o Flatten([i \in DOMAIN tutorial.items |->
                  IF "items" \in DOMAIN tutorial.items[i]
                  THEN LeavesUnder(Append(path, sanitize_name(tutorial.items[i].name)),
                                   tutorial.items[i].items)
                  ELSE <<>>])
TopicLeaves(path, topic) ==
  Flatten([i \in DOMAIN topic.items |->
             TutorialLeaves(Append(path, sanitize_name(topic.items[i].name)),
                            topic.items[i])])
Leaves(data) ==
  Flatten([i \in DOMAIN data.items |->
             TopicLeaves(<<sanitize_name(data.destination.name),
                           sanitize_name(data.items[i].name)>>, data.items[i])])

\* What a step of a manifest script does to the walk and to the rows.
RowStep ==
  script \in ManifestScripts =>
      /\ (pc = "main" /\ pc' = "process_urls") =>
            \E m \in ManifestPool :
              /\ work' = process_yaml(m)
              /\ ~HasRaise(work') =>
                   [i \in DOMAIN SelectSeq(work', IsLeafOp) |->
                      [path |-> SelectSeq(work', IsLeafOp)[i].path,
                       url |-> SelectSeq(work', IsLeafOp)[i].url]] = Leaves(m.data)
      /\ (pc = "process_urls" /\ work # <<>> /\ Head(work).op = "url") =>
            IF IsLeafOp(Head(work))
            THEN /\ pc' \in {"attempt", "row"}
                 /\ cur'.url = Head(work).url
                 /\ cur'.path = Head(work).path
            ELSE pc' = "process_urls"
      /\ pc \in {"attempt", "stream", "except"} =>
            (pc' \in {"attempt", "stream", "except", "row"} /\ cur' = cur)
      /\ pc = "row" =>
            /\ Rows(summary') =
                 Append(Rows(summary), ItemLine(cur.path, cur.url, ret.status, ret.size))
            /\ pc' = "process_urls"
      /\ pc # "row" => Rows(summary') = Rows(summary)

\* C15: in the manifest scripts the steps handed to process_urls for a
\* manifest are its url-carrying leaves, one step each; each such step
\* ends in exactly one appended row carrying the leaf's path and url, and
\* no other step (calculate_overall_size included) changes the rows
\* written so far.
C15_OneRowPerLeaf == [][RowStep]_vars

\* C15 witness: a finished run of test-download.py that wrote a row for an
\* item directly under a tutorial and a row for a failed item of a DOI
\* group, both still there after calculate_overall_size.
C15_Witness ==
  /\ script = "test_download"
  /\ pc = "done"
  /\ \E i, j \in DOMAIN summary :
       /\ i < j
       /\ summary[i].kind = "item" /\ Len(summary[i].path) = 3
       /\ summary[i].status = Downloaded
       /\ summary[j].kind = "item" /\ Len(summary[j].path) = 4
       /\ summary[j].status.kind = "Error"

\* ------------------------------------------- claims on the credential
\* C16: in a run of api_upload.py without the access token nothing is
\* ever done: no manifest is loaded, no request is made, the remote store
\* and the local files (TMP_DIR included) stay as they were, and main
\* only returns.
C16_NoTokenNoWork ==
  (script = "api_upload" /\ token = "")
    => /\ pc \in {"main", "done"}
       /\ walked = 0
       /\ loaded = <<>>
       /\ traffic = NoTraffic
       /\ remote = remote0
       /\ fs = fs0
       /\ exc = ""

\* C16 witness: main has returned for the missing token, with the files
\* an earlier run left in TMP_DIR still there.
C16_Witness ==
  /\ script = "api_upload"
  /\ token = ""
  /\ pc = "done"
  /\ Exists(fs, TmpDirPath)
  /\ Exists(fs, LocalFile(F_a))

\* C16 witness, second case: TMP_DIR did not exist and was not created.
C16_WitnessNoDir ==
  /\ script = "api_upload"
  /\ token = ""
  /\ pc = "done"
  /\ ~Exists(fs, TmpDirPath)

\* ------------------------------------------- claims on sanitize_name
\* The forbidden set as the specification lists it.
ClaimedForbidden ==
  {"\\", "/", ":", "*", ",", "?", "\"", "<", ">", "|", "%", ".", "#", "!", "@",
   "$", "&", "'", "(", ")", "[", "]", "{", "}", " "}

\* C17: the name sanitize_name returns has the length of its argument, no
\* character of the forbidden set, "-" where the argument has a forbidden
\* character and the argument's character everywhere else.
C17_SanitizedIsSafe ==
  (script = "sanitize_name" /\ pc = "return")
    => /\ Len(name_out) = Len(name_in)
       /\ \A i \in DOMAIN name_out :
            /\ name_out[i] \notin ClaimedForbidden
            /\ name_in[i] \in ClaimedForbidden => name_out[i] = "-"
            /\ name_in[i] \notin ClaimedForbidden => name_out[i] = name_in[i]

\* C17 witness: a name with a dot and a kept character has been sanitized.
C17_Witness ==
  /\ script = "sanitize_name"
  /\ pc = "return"
  /\ name_in = <<".", "a">>
  /\ name_out = <<"-", "a">>

\* ------------------------------------------- claims on destination paths
\* C18 as stated: in a run of a manifest script started with no file at
\* all, no item is skipped as already existing because of the file
\* downloaded for an item with another url.
C18_NoSkipForAnotherItem ==
  (script \in ManifestScripts /\ fs0 = EmptyFs)
    => \A i, j \in DOMAIN fetched :
         (/\ i < j
          /\ fetched[i].status = Downloaded
          /\ fetched[j].status.kind = "Skipped"
          /\ fetched[j].file = fetched[i].dest)
           => fetched[j].url = fetched[i].url

\* ------------------------------------------- claims on the requested URL
FetchingScripts == {"data_library", "test_download", "from_tsv"}

\* C19 as stated: the URL a download helper requests never ends in the
\* "/content" segment.
C19_ContentStrippedEverywhere ==
  (script \in FetchingScripts /\ pc \in {"attempt", "stream", "except"})
    => ~EndsWithContent(cur.req)

\* ------------------------------------------- claims on the backoff
\* the helper's backoff argument
Backoff(scr) == IF scr = "from_tsv" THEN TsvBackoff ELSE DefaultBackoff

\* C20 as stated: the delay slept after the k-th failed attempt of a
\* fetch, k below retries, is backoff * k.
C20_DelayScales ==
  script \in FetchingScripts
    => \A k \in DOMAIN sleeps : k < retries => sleeps[k] = Backoff(script) * k

\* ------------------------------------------- claims on the Overall row
RECURSIVE TotalUpTo(_, _)
\* the sizes of the first n lines added up
TotalUpTo(lines, n) == IF n = 0 THEN 0 ELSE TotalUpTo(lines, n - 1) + lines[n].size

OverallRows(lines) == {i \in DOMAIN lines : lines[i].kind = "overall"}

\* C21: once main has finalised the summary there is one Overall row, its
\* size is the sum of the sizes of the item rows, a row of a skipped file
\* carries the size of the file that exists and a row of a failed item 0.
C21_OverallIsSum ==
  (script \in ManifestScripts /\ pc = "done")
    => /\ Cardinality(OverallRows(summary)) = 1
       /\ \A i \in OverallRows(summary) :
            summary[i].size = TotalUpTo(Rows(summary), Len(Rows(summary)))
       /\ Len(Rows(summary)) = Len(fetched)
       /\ \A k \in DOMAIN fetched :
            /\ Rows(summary)[k].status.kind = "Error" => Rows(summary)[k].size = 0
            /\ Rows(summary)[k].status.kind = "Skipped" =>
                 /\ Exists(fs, fetched[k].file)
                 /\ Rows(summary)[k].size = GetSize(fs, fetched[k].file)
                 /\ Rows(summary)[k].size > 0

\* C21 witness: a finished run with a row of a skipped file of one chunk
\* and a row of a downloaded file of one chunk, and an Overall row of two.
C21_Witness ==
  /\ script = "test_download"
  /\ pc = "done"
  /\ Len(Rows(summary)) = 2
  /\ Rows(summary)[1].status.kind = "Skipped" /\ Rows(summary)[1].size = 1
  /\ Rows(summary)[2].status = Downloaded /\ Rows(summary)[2].size = 1
  /\ \E i \in OverallRows(summary) : summary[i].size = 2

\* ------------------------------------------- claims on the retry loop
InHelper == pc \in {"attempt", "stream", "except"}

\* What is left of a fetch at most: the attempts not yet begun, each with
\* its request, the chunks of its body and its except clause, and within
\* the attempt under way the steps it still has.
StepsLeft ==
  LET body == BodyLen(Resource(cur.req))
  IN CASE pc = "attempt" -> (retries - attempt) * (body + 4) + body + 3
       [] pc = "stream" ->
            (retries - attempt) * (body + 4) + body + 2 - fs[cur.tmp].len
       [] pc = "except" -> (retries - attempt) * (body + 4) + 1
       [] OTHER -> 0

\* What a step of a fetching script does to the count of requests.
RetryStep ==
  script \in FetchingScripts =>
    /\ net' <= retries
    /\ InHelper => (StepsLeft' < StepsLeft /\ StepsLeft' >= 0)
    /\ (InHelper /\ pc' = "row" /\ ret'.status.kind = "Error") => net' = retries
    /\ (InHelper /\ pc' = "row" /\ ret'.status = Downloaded) =>
         (net' = net /\ net' = attempt + 1)
    /\ pc = "row" => net' = net

\* C22: a fetch makes at most retries requests; every step of the helper
\* brings its return nearer, so it returns; it returns the error status
\* after exactly retries requests, and after the request that succeeded
\* it makes no other.
C22_AtMostRetriesAttempts == [][RetryStep]_vars

\* C22 witness: a fetch has returned the error status after three
\* requests out of three.
C22_Witness ==
  /\ script = "data_library"
  /\ pc = "row"
  /\ retries = 3
  /\ net = 3
  /\ attempt = 3
  /\ ret.status.kind = "Error"

\* ------------------------------------------- claims on the local files
\* C23: when a download helper has returned Downloaded or the error
\* status, there is no file at the entry's staging path tmp_local.
C23_NoStagingFileLeft ==
  (/\ script \in FetchingScripts
   /\ pc = "row"
   /\ ret.status.kind \in {"Downloaded", "Error"})
    => /\ cur.tmp = TmpLocal(script, cur.dest)
       /\ ~Exists(fs, cur.tmp)

\* C23 witness: the helper has returned the error status after an attempt
\* whose read broke off with chunks already in the staging file.
C23_Witness ==
  /\ script = "from_tsv"
  /\ pc = "row"
  /\ ret.status.kind = "Error"
  /\ e = "IncompleteRead"
  /\ ~Exists(fs, cur.tmp)

\* C23 witness: the helper has returned Downloaded, the staging file
\* moved to the destination.
C23_WitnessMoved ==
  /\ script = "data_library"
  /\ pc = "row"
  /\ ret.status = Downloaded
  /\ Exists(fs, cur.dest)
  /\ ~Exists(fs, cur.tmp)

\* What a step does to the files outside the staging directories that
\* are not empty.
FrameStep ==
  script \in FetchingScripts =>
    \A p \in DOMAIN fs :
      (~IsStaging(p) /\ GetSize(fs, p) > 0)
        => (p \in DOMAIN fs' /\ fs'[p] = fs[p])

\* C24: a file that is not empty, at a destination path, stays as it is
\* through every step of a run, whatever the other entries come to.
C24_ExistingFileUnchanged == [][FrameStep]_vars

\* C24 witness: the run is over, the file that was there before it is
\* still the same, its entry skipped, and another entry was downloaded.
C24_Witness ==
  /\ script = "from_tsv"
  /\ pc = "main"
  /\ Len(fetched) = 2
  /\ fetched[1].status = Downloaded
  /\ fetched[2].status.kind = "Skipped"
  /\ fetched[2].dest \in DOMAIN fs0
  /\ fs0[fetched[2].dest].len > 0
  /\ fs[fetched[2].dest] = fs0[fetched[2].dest]
  /\ fetched[1].dest # fetched[2].dest

====
